---- MODULE Spec2Model ----
(***************************************************************************)
(* Model of messenger465_client.py: the stop-and-wait request/reply        *)
(* transport (MessageBoardNetwork), the controller callbacks that use it   *)
(* (MessageBoardController) and the two view fields they write.            *)
(*                                                                         *)
(* Text (Python str) is a sequence of code points, bytes objects are       *)
(* sequences of numbers in 0..255.  Python's 0-based index i is i+1 here.  *)
(***************************************************************************)
EXTENDS Integers, Sequences, FiniteSets, TLC

VARIABLES
    seq,        \* self.seq: b'0' or b'1'
    retries,    \* self.retries (--retries)
    name,       \* MessageBoardController.name
    stack,      \* handlers the Tk main loop has dispatched and not finished
    request,    \* the request argument of the current/last sendRequest
    t,          \* loop variable of sendRequest
    status,     \* view.status['text']
    items,      \* contents of view.message_list
    wire,       \* history: datagrams handed to sendto by the current/last call
    seq0,       \* history: self.seq when the current/last call started
    outcome,    \* history: how the current/last call ended
    result,     \* history: value returned by the last sendRequest
    parsed,     \* history: argument of the last split_messages call
    lastRecv,   \* history: last datagram read by the current/last call
    recvAt,     \* history: the loop iteration (1-based) that read lastRecv
    toggles,    \* history: nextSeq calls made by the current/last call
    items0,     \* history: items when the current/last call started
    arg,        \* history: message argument of the last postMessage, or None
    successes,  \* history: calls that returned a payload so far, modulo 2
    net,        \* replies of the server that are under way to the socket
    origin      \* history: where lastRecv came from

vars == <<seq, retries, name, stack, request, t, status, items,
          wire, seq0, outcome, result, parsed, lastRecv, recvAt, toggles,
          items0, arg, successes, net, origin>>

----------------------------------------------------------------------------
(* Bounds of the model. *)

MaxRetries == 3
MaxTokens == 6
MaxLen == 2

----------------------------------------------------------------------------
(* Notation: ASCII text literals as code point sequences. *)

Upper == "ABCDEFGHIJKLMNOPQRSTUVWXYZ"
Lower == "abcdefghijklmnopqrstuvwxyz"
Digits == "0123456789:"

Ord(c) ==
    IF c = " " THEN 32
    ELSE IF \E i \in 1..Len(Upper) : SubSeq(Upper, i, i) = c
         THEN 64 + CHOOSE i \in 1..Len(Upper) : SubSeq(Upper, i, i) = c
    ELSE IF \E i \in 1..Len(Lower) : SubSeq(Lower, i, i) = c
         THEN 96 + CHOOSE i \in 1..Len(Lower) : SubSeq(Lower, i, i) = c
    ELSE 47 + CHOOSE i \in 1..Len(Digits) : SubSeq(Digits, i, i) = c

S(s) == [i \in 1..Len(s) |-> Ord(SubSeq(s, i, i))]

None == <<-1>>           \* Python None / no value (never a text or bytes value)

----------------------------------------------------------------------------
(* bytes.decode() and str.encode(): UTF-8. *)

IsCont(b) == b >= 128 /\ b <= 191

\* Number of bytes of the UTF-8 sequence starting at b[i]; 0 when the bytes
\* there are not a valid sequence (decode raises UnicodeDecodeError).
SeqLen(b, i) ==
    LET b1 == b[i]
        n  == Len(b)
        c(k) == i + k <= n /\ IsCont(b[i + k])
    IN  IF b1 < 128 THEN 1
        ELSE IF b1 >= 194 /\ b1 <= 223 THEN (IF c(1) THEN 2 ELSE 0)
        ELSE IF b1 >= 224 /\ b1 <= 239
             THEN (IF c(1) /\ c(2)
                      /\ (b1 = 224 => b[i + 1] >= 160)
                      /\ (b1 = 237 => b[i + 1] <= 159)
                   THEN 3 ELSE 0)
        ELSE IF b1 >= 240 /\ b1 <= 244
             THEN (IF c(1) /\ c(2) /\ c(3)
                      /\ (b1 = 240 => b[i + 1] >= 144)
                      /\ (b1 = 244 => b[i + 1] <= 143)
                   THEN 4 ELSE 0)
        ELSE 0

CodePoint(b, i, n) ==
    IF n = 1 THEN b[i]
    ELSE IF n = 2 THEN (b[i] - 192) * 64 + (b[i + 1] - 128)
    ELSE IF n = 3 THEN (b[i] - 224) * 4096 + (b[i + 1] - 128) * 64
                       + (b[i + 2] - 128)
    ELSE (b[i] - 240) * 262144 + (b[i + 1] - 128) * 4096
         + (b[i + 2] - 128) * 64 + (b[i + 3] - 128)

RECURSIVE DecodeFrom(_, _)
DecodeFrom(b, i) ==
    IF i > Len(b) THEN <<>>
    ELSE LET n == SeqLen(b, i)
         IN  IF n = 0 THEN None
             ELSE LET rest == DecodeFrom(b, i + n)
                  IN  IF rest = None THEN None
                      ELSE <<CodePoint(b, i, n)>> \o rest

\* bytes.decode(): the text, or None when UnicodeDecodeError is raised.
Decode(b) == DecodeFrom(b, 1)

\* mutant of EncodeChar: one byte for every code point below 256
EncodeCharLatin1(c) ==
    IF c < 256 THEN <<c>>
    ELSE IF c < 2048 THEN <<192 + (c \div 64), 128 + (c % 64)>>
    ELSE IF c < 65536
         THEN <<224 + (c \div 4096), 128 + ((c \div 64) % 64),
                128 + (c % 64)>>
    ELSE <<240 + (c \div 262144), 128 + ((c \div 4096) % 64),
           128 + ((c \div 64) % 64), 128 + (c % 64)>>

EncodeChar(c) ==
    IF c < 128 THEN <<c>>
    ELSE IF c < 2048 THEN <<192 + (c \div 64), 128 + (c % 64)>>
    ELSE IF c < 65536
         THEN <<224 + (c \div 4096), 128 + ((c \div 64) % 64),
                128 + (c % 64)>>
    ELSE <<240 + (c \div 262144), 128 + ((c \div 4096) % 64),
           128 + ((c \div 64) % 64), 128 + (c % 64)>>

RECURSIVE Encode(_)
Encode(s) == IF s = <<>> THEN <<>> ELSE EncodeChar(Head(s)) \o Encode(Tail(s))

----------------------------------------------------------------------------
(* Python str operations used by the client. *)

StartsWith(s, p) == Len(s) >= Len(p) /\ SubSeq(s, 1, Len(p)) = p

\* s[k:] for a 0-based k >= 0
SliceFrom(s, k) == SubSeq(s, k + 1, Len(s))

\* mutant of Slice3: m[i:i+2]
Slice3Short(m, i) == SubSeq(m, i + 1, IF i + 2 <= Len(m) THEN i + 2 ELSE Len(m))

\* s[i:i+3] for a 0-based i (a list slice: short at the end of the list)
Slice3(m, i) == SubSeq(m, i + 1, IF i + 3 <= Len(m) THEN i + 3 ELSE Len(m))

\* str.split(sep): the leftmost occurrences of sep, scanned left to right
RECURSIVE SplitFrom(_, _, _)
SplitFrom(s, sep, cur) ==
    IF s = <<>> THEN <<cur>>
    ELSE IF StartsWith(s, sep)
         THEN <<cur>> \o SplitFrom(SliceFrom(s, Len(sep)), sep, <<>>)
         ELSE SplitFrom(Tail(s), sep, Append(cur, Head(s)))

Split(s, sep) == SplitFrom(s, sep, <<>>)

\* sep.join(l)
RECURSIVE Join(_, _)
Join(sep, l) ==
    IF l = <<>> THEN <<>>
    ELSE IF Len(l) = 1 THEN l[1]
    ELSE l[1] \o sep \o Join(sep, Tail(l))

\* "{}".format(n) for an int n >= 0: decimal digits
RECURSIVE Str(_)
Str(n) == IF n < 10 THEN <<48 + n>> ELSE Str(n \div 10) \o <<48 + (n % 10)>>

\* mutant of Xor: a | b
RECURSIVE XorAsOr(_, _)
XorAsOr(a, b) ==
    IF a = 0 /\ b = 0 THEN 0
    ELSE (IF (a % 2) + (b % 2) >= 1 THEN 1 ELSE 0) + 2 * XorAsOr(a \div 2, b \div 2)

\* a ^ b on ints 0..255
RECURSIVE Xor(_, _)
Xor(a, b) ==
    IF a = 0 /\ b = 0 THEN 0
    ELSE (((a % 2) + (b % 2)) % 2) + 2 * Xor(a \div 2, b \div 2)

----------------------------------------------------------------------------
(* class MessageBoardNetwork *)

GET == S("GET")                                  \* self.get
PostPrefix == S("POST ")
Sep == S("::")
Post(user, message) ==                           \* self.post.format(..)
    PostPrefix \o user \o Sep \o message
Unresponsive == S("ERROR server does not respond")
RecvMax == 1400                                  \* recvfrom(1400)

\* mutant of nextSeq: both branches store b'0'
nextSeqStuck(sq) == <<48>>

\* nextSeq: the value self.seq has after the call
nextSeq(sq) == IF sq = <<48>> THEN <<49>> ELSE <<48>>

\* the loop "for b in databytes: checksum ^= b"
RECURSIVE Checksum(_)
Checksum(databytes) ==
    IF databytes = <<>> THEN 0
    ELSE Xor(Checksum(SubSeq(databytes, 1, Len(databytes) - 1)),
             databytes[Len(databytes)])

\* mutant of generateHeader: the digit is always b'0'
generateHeaderDigit0(sq, databytes) == <<67, 48>> \o <<Checksum(databytes)>>

generateHeader(sq, databytes) == <<67>> \o sq \o <<Checksum(databytes)>>

generateRequest(sq, data) ==
    LET databytes == Encode(data)
    IN  generateHeader(sq, databytes) \o databytes

\* s.recvfrom(1400)[0]: the datagram, cut to the buffer size
Recv(d) == SubSeq(d, 1, IF Len(d) <= RecvMax THEN Len(d) ELSE RecvMax)

\* What line 63-66 do with a datagram d while self.seq = sq:
\*   "UnicodeDecodeError"  decode() raises
\*   "IndexError"          msg[1] raises
\*   "accept"              the comparison holds: nextSeq, return msg[3:]
\*   "skip"                the comparison fails: next loop iteration
Judge(sq, d) ==
    LET msg == Decode(Recv(d))
    IN  IF msg = None THEN "UnicodeDecodeError"
        ELSE IF Len(msg) < 2 THEN "IndexError"
        ELSE IF <<msg[2]>> = Decode(sq) THEN "accept"
        ELSE "skip"

\* mutant of Toggles: nextSeq called before the comparison
TogglesBeforeCompare(j) == j \in {"accept", "skip"}

\* whether self.nextSeq() runs for a datagram judged j (line 64-65)
Toggles(j) == j = "accept"

\* mutant of Payload: msg[2:]
PayloadFrom2(d) == SliceFrom(Decode(Recv(d)), 2)

\* msg[3:] of an accepted datagram
Payload(d) == SliceFrom(Decode(Recv(d)), 3)

----------------------------------------------------------------------------
(* class MessageBoardController *)

OK == S("OK")
Space == S(" ")

\* mutant of split_messages: range(0, len(m) - 2, 3), whole triples only
split_messagesWhole(raw_data) ==
    LET m == Split(SliceFrom(raw_data, 3), Sep)
        starts == {i \in 0..(Len(m) - 3) : i % 3 = 0}
    IN  [k \in 1..Cardinality(starts) |->
            Join(Space, Slice3(m, 3 * (k - 1)))]

split_messages(raw_data) ==
    LET m == Split(SliceFrom(raw_data, 3), Sep)
        starts == {i \in 0..(Len(m) - 1) : i % 3 = 0}    \* range(0, len(m), 3)
    IN  [k \in 1..Cardinality(starts) |->
            Join(Space, Slice3(m, 3 * (k - 1)))]

RetrievedSuffix == S(" messages retrieved")
Retrieved(n) == Str(n) \o RetrievedSuffix
MessageSent == S("Message Sent")
StartingUp == S("starting up")                   \* the Label's first text

\* mutant of AfterGet: the list is emptied when the fetch fails
AfterGetClears(res) ==
    IF StartsWith(res, OK)
    THEN LET messages == split_messages(res)
         IN  <<Retrieved(Len(messages)), messages, res>>
    ELSE <<res, <<>>, parsed>>

\* the part of a handler that follows the return of getMessages/postMessage
\* with the value res: <<status, list items, argument of split_messages>>
AfterGet(res) ==
    IF StartsWith(res, OK)
    THEN LET messages == split_messages(res)
         IN  <<Retrieved(Len(messages)), messages, res>>
    ELSE <<res, items, parsed>>

AfterPost(res) ==
    IF StartsWith(res, OK)
    THEN <<MessageSent, items, parsed>>
    ELSE <<res, items, parsed>>

After(h, res) == IF h = "get" THEN AfterGet(res) ELSE AfterPost(res)

----------------------------------------------------------------------------
(* The environment: inputs of the program. *)

Names == {S("al")}                       \* user names typed at start-up
Messages == {S("hi"), <<8364>>}          \* entry texts: "hi", the euro sign

\* a reply laid out like a request: marker, sequence digit, checksum, body
Reply(digit, body) == generateHeader(<<digit>>, Encode(body)) \o Encode(body)

Foo == S("OKfoo")
ServerError == S("NO")
Listing == S("OK a::b::c::d")
Euro == <<79, 75, 8364>>                 \* "OK" and the euro sign
ErrEuro == <<78, 79, 8364>>              \* "NO" and the euro sign

\* Datagrams that can reach the socket (UDP: from any sender):
\* well-formed replies, and datagrams that are empty, one byte long, carry
\* a wrong checksum byte or start with a two-byte character.
Datagrams ==
    {Reply(48, OK), Reply(49, OK), Reply(48, Foo), Reply(49, ServerError),
     Reply(48, Listing), Reply(48, Euro), Reply(49, ErrEuro),
     <<>>, <<67>>, <<67, 48, 0, 79, 75>>, <<195, 169, 48, 79, 75>>}

----------------------------------------------------------------------------
(* State machine. *)

Init ==
    /\ seq = <<48>>
    /\ retries \in 0..MaxRetries
    /\ name \in Names
    /\ stack = <<>>
    /\ request = None
    /\ t = 0
    /\ status = StartingUp
    /\ items = <<>>
    /\ wire = <<>>
    /\ seq0 = <<48>>
    /\ outcome = "none"
    /\ result = None
    /\ parsed = None
    /\ lastRecv = None
    /\ recvAt = 0
    /\ toggles = 0
    /\ items0 = <<>>
    /\ arg = None
    /\ successes = 0
    /\ net = {}
    /\ origin = "none"

\* mutant of MainloopIdle: callbacks dispatched while a handler waits
MainloopReentrant == TRUE

\* view.mainloop(): Tk runs one callback at a time, to its end
MainloopIdle == stack = <<>>

\* sendRequest returns res to getMessages/postMessage, which return it to
\* the handler; the handler finishes and control is back in the main loop
Return(res, how) ==
    LET a == After(Head(stack), res)
    IN  /\ stack' = Tail(stack)
        /\ t' = 0
        /\ outcome' = how
        /\ result' = res
        /\ status' = a[1]
        /\ items' = a[2]
        /\ parsed' = a[3]

\* an exception leaves sendRequest and the handler; Tk reports it and the
\* main loop goes on
Raise(exc) ==
    /\ stack' = Tail(stack)
    /\ t' = 0
    /\ outcome' = exc
    /\ result' = None
    /\ UNCHANGED <<status, items, parsed>>

\* mutant of NextIteration: one iteration too many
NextIterationOneMore ==
    IF t + 1 <= retries
    THEN /\ t' = t + 1
         /\ wire' = Append(wire, request)
         /\ UNCHANGED <<stack, outcome, result, status, items, parsed>>
    ELSE /\ Return(Unresponsive, "unresponsive")
         /\ UNCHANGED wire

\* end of one loop iteration without a return: sendto of the next
\* iteration, or the return after the loop
NextIteration ==
    IF t + 1 < retries
    THEN /\ t' = t + 1
         /\ wire' = Append(wire, request)
         /\ UNCHANGED <<stack, outcome, result, status, items, parsed>>
    ELSE /\ Return(Unresponsive, "unresponsive")
         /\ UNCHANGED wire

\* A handler calls getMessages/postMessage, which builds the request and
\* enters sendRequest: up to the first select
Call(h, data) ==
    LET req == generateRequest(seq, data)
    IN  /\ MainloopIdle
        /\ seq0' = seq
        /\ request' = req
        /\ lastRecv' = None
        /\ recvAt' = 0
        /\ toggles' = 0
        /\ items0' = items
        /\ origin' = "none"
        /\ net' = {[r EXCEPT !.fresh = FALSE] : r \in net}
        /\ IF 0 < retries
           THEN /\ stack' = <<h>> \o stack
                /\ t' = 0
                /\ wire' = <<req>>
                /\ outcome' = "running"
                /\ result' = None
                /\ UNCHANGED <<status, items, parsed>>
           ELSE LET a == After(h, Unresponsive)
                IN  /\ stack' = stack
                    /\ t' = 0
                    /\ wire' = <<>>
                    /\ outcome' = "unresponsive"
                    /\ result' = Unresponsive
                    /\ status' = a[1]
                    /\ items' = a[2]
                    /\ parsed' = a[3]
        /\ UNCHANGED <<seq, retries, name, successes>>

\* the timer callback
retrieve_messages ==
    /\ Call("get", GET)
    /\ arg' = None

\* newMessage -> post_message_callback(m), for a non-empty entry text
post_message_callback(m) ==
    /\ Len(m) > 0
    /\ Call("post", Post(name, m))
    /\ arg' = m

\* select returns no socket: no datagram reached the socket in time
SelectTimeout ==
    /\ stack # <<>>
    /\ NextIteration
    /\ UNCHANGED <<seq, retries, name, request, seq0, lastRecv, recvAt, toggles,
                   items0, arg, successes, net, origin>>

\* select returns the socket, on which datagram d (from sender from) is
\* the first queued: recvfrom, decode, compare
Read(d, from) ==
    /\ stack # <<>>
    /\ lastRecv' = d
    /\ recvAt' = t + 1
    /\ origin' = from
    /\ LET j == Judge(seq, d)
       IN  /\ seq' = (IF Toggles(j) THEN nextSeq(seq) ELSE seq)
           /\ toggles' = (IF Toggles(j) THEN toggles + 1 ELSE toggles)
           /\ successes' = (IF j = "accept" THEN 1 - successes ELSE successes)
           /\ IF j = "accept"
              THEN /\ Return(Payload(d), "payload")
                   /\ UNCHANGED wire
              ELSE IF j = "skip"
              THEN NextIteration
              ELSE /\ Raise(j)
                   /\ UNCHANGED wire
    /\ UNCHANGED <<retries, name, request, seq0, items0, arg>>

\* a datagram from any sender
SelectReadable(d) ==
    /\ Read(d, "any")
    /\ UNCHANGED net

Next ==
    \/ retrieve_messages
    \/ \E m \in Messages : post_message_callback(m)
    \/ SelectTimeout
    \/ \E d \in Datagrams : SelectReadable(d)

Spec == Init /\ [][Next]_vars

TypeOK ==
    /\ seq \in {<<48>>, <<49>>}
    /\ Len(stack) <= 1
    /\ Len(wire) <= retries

----------------------------------------------------------------------------
(* Properties of sendRequest. *)

\* the second byte of datagram d is the sequence digit sq
Matches(d, sq) == Len(d) >= 2 /\ d[2] = sq[1]

\* the bytes of datagram d after its 3-byte header
Body(d) == SubSeq(d, 4, Len(d))

Finished == stack = <<>> /\ outcome # "none"

\* C1: a call that returns a reply payload has toggled the sequence bit
\* exactly once, whatever number of timeouts and mismatched replies came
\* before the accepted reply.
C1_ToggledOnce ==
    outcome = "payload" =>
        /\ toggles = 1
        /\ seq # seq0
        /\ seq \in {<<48>>, <<49>>}

\* a payload returned in the third iteration
C1_Witness == outcome = "payload" /\ Len(wire) = 3 /\ recvAt = 3

\* C2: a call that ends with the Unresponsive sentinel leaves the sequence
\* bit as it was when the call started, and the request built next carries
\* that same bit.
C2_UnresponsiveKeepsSeq ==
    [][(stack = <<>> /\ outcome = "unresponsive") =>
            /\ seq = seq0
            /\ toggles = 0
            /\ request'[2] = seq0[1]]_vars

\* Unresponsive after a mismatched reply in the last of >= 2 iterations
C2_Witness ==
    /\ outcome = "unresponsive"
    /\ Len(wire) >= 2
    /\ lastRecv # None
    /\ recvAt = Len(wire)

C4_AcceptedIffDigit ==
    lastRecv # None => (outcome = "payload" <=> Matches(lastRecv, seq0))

\* C5: the first datagram whose sequence digit matches, read in iteration
\* k, makes the call return in iteration k after exactly k transmissions.
C5_ReturnsAtK ==
    (lastRecv # None /\ Matches(lastRecv, seq0)) =>
        /\ outcome = "payload"
        /\ stack = <<>>
        /\ Len(wire) = recvAt

\* C6: whatever datagram arrives, the exchange ends with a payload or the
\* sentinel and a status string set from it; nothing is raised.
C6_NoFault ==
    /\ outcome \in {"none", "running", "payload", "unresponsive"}
    /\ Finished =>
          /\ result # None
          /\ status \in {result, MessageSent, Retrieved(Len(items))}

\* C7: a reply with a matching sequence digit whose body does not start
\* with "OK" ends the call in that iteration: the body is returned as
\* received, the sequence bit is toggled, the status is the body and the
\* message list is untouched.
C7_ServerErrorPassed ==
    (/\ lastRecv # None
     /\ Len(lastRecv) >= 3
     /\ Matches(lastRecv, seq0)
     /\ ~StartsWith(Body(lastRecv), Encode(OK))) =>
        /\ outcome = "payload"
        /\ Len(wire) = recvAt
        /\ Encode(result) = Body(lastRecv)
        /\ seq # seq0
        /\ status = result
        /\ items = items0

\* C8 as stated: an accepted reply carrying "OKfoo" makes sendRequest
\* return "foo".
C8_ReturnsFoo ==
    (/\ outcome = "payload"
     /\ Len(lastRecv) >= 3
     /\ Matches(lastRecv, seq0)
     /\ Body(lastRecv) = Encode(Foo)) =>
        result = S("foo")

\* C8, amended: an accepted reply carrying "OKfoo" makes sendRequest
\* return "OKfoo", the body with its "OK" prefix.
C8_ReturnsOKfoo ==
    (/\ outcome = "payload"
     /\ Len(lastRecv) >= 3
     /\ Matches(lastRecv, seq0)
     /\ Body(lastRecv) = Encode(Foo)) =>
        result = Foo

\* "OKfoo" accepted in the second iteration
C8_Witness ==
    /\ outcome = "payload"
    /\ lastRecv = Reply(48, Foo)
    /\ recvAt = 2
    /\ result = Foo

----------------------------------------------------------------------------
(* split_messages on its own: the part of retrieve_messages that follows   *)
(* the return of getMessages, started on every payload of a bounded set.   *)

Tokens == {S("t1"), S("u1")}
Example == <<S("t1"), S("u1"), S("m1"), S("t2"), S("u2"), S("m2")>>
TokenSeqs == UNION {[1..k -> Tokens] : k \in 0..MaxTokens} \cup {Example}

\* what precedes the first token: nothing, a space, a colon
Prefixes == {<<>>, S(" "), S(":")}

FetchPayloads == {OK \o pre \o Join(Sep, toks) : pre \in Prefixes, toks \in TokenSeqs}

ParseInit ==
    /\ seq = <<49>>
    /\ retries = 1
    /\ name \in Names
    /\ stack = <<"get">>
    /\ request = generateRequest(<<48>>, GET)
    /\ t = 0
    /\ status = StartingUp
    /\ items = <<>>
    /\ wire = <<request>>
    /\ seq0 = <<48>>
    /\ outcome = "payload"
    /\ result \in FetchPayloads
    /\ parsed = None
    /\ lastRecv = Reply(48, result)
    /\ recvAt = 1
    /\ toggles = 1
    /\ items0 = <<>>
    /\ arg = None
    /\ successes = 1
    /\ net = {}
    /\ origin = "any"

ParseStep ==
    /\ stack = <<"get">>
    /\ LET a == AfterGet(result)
       IN  /\ status' = a[1]
           /\ items' = a[2]
           /\ parsed' = a[3]
    /\ stack' = <<>>
    /\ UNCHANGED <<seq, retries, name, request, t, wire, seq0, outcome, result,
                   lastRecv, recvAt, toggles, items0, arg, successes, net,
                   origin>>

SpecParse == ParseInit /\ [][ParseStep]_vars

\* the display lines of the complete triples of toks, in order
Lines(toks) ==
    [k \in 1..(Len(toks) \div 3) |->
        toks[3 * k - 2] \o Space \o toks[3 * k - 1] \o Space \o toks[3 * k]]

\* the tokens of toks after its last complete triple
Trailing(toks) == SubSeq(toks, 3 * (Len(toks) \div 3) + 1, Len(toks))

----------------------------------------------------------------------------
(* Properties of the fetch handler. *)

\* the current/last call was made by retrieve_messages
IsFetch == outcome # "none" /\ arg = None

\* C11: a fetch whose accepted reply body is the bare "OK" gives the view
\* zero list items and reports 0 messages.
C11_BareOKNoMessages ==
    (/\ Finished
     /\ IsFetch
     /\ outcome = "payload"
     /\ lastRecv = Reply(seq0[1], OK)
     /\ result = OK) =>
        /\ items = <<>>
        /\ status = Retrieved(0)

----------------------------------------------------------------------------
(* Request building on its own: getMessages/postMessage up to the call of  *)
(* sendRequest, for users and texts of a bounded set, and generateRequest  *)
(* on arbitrary short texts.                                               *)

BuildNames == {S("al"), <<233>>, <<>>}
BuildTexts == {S("hi"), <<8364>>, S("a::b"), <<128512>>}
Alphabet == {65, 255, 8364}
RawData == UNION {[1..k -> Alphabet] : k \in 0..MaxLen}

BuildInit ==
    /\ seq \in {<<48>>, <<49>>}
    /\ retries = 1
    /\ name \in BuildNames
    /\ stack = <<>>
    /\ request = None
    /\ t = 0
    /\ status = StartingUp
    /\ items = <<>>
    /\ wire = <<>>
    /\ seq0 = seq
    /\ outcome = "none"
    /\ result = None
    /\ parsed = None
    /\ lastRecv = None
    /\ recvAt = 0
    /\ toggles = 0
    /\ items0 = <<>>
    /\ arg \in BuildTexts \cup {None}
    /\ successes = 0
    /\ net = {}
    /\ origin = "none"

\* line 74-75 (arg = None) and line 83-84
BuildCall ==
    /\ request = None
    /\ request' = generateRequest(seq, IF arg = None THEN GET ELSE Post(name, arg))
    /\ outcome' = "built"
    /\ UNCHANGED <<seq, retries, name, stack, t, status, items, wire, seq0,
                   result, parsed, lastRecv, recvAt, toggles, items0, arg,
                   successes, net, origin>>

\* generateRequest(data) for any text
BuildRaw(data) ==
    /\ request = None
    /\ request' = generateRequest(seq, data)
    /\ outcome' = "raw"
    /\ UNCHANGED <<seq, retries, name, stack, t, status, items, wire, seq0,
                   result, parsed, lastRecv, recvAt, toggles, items0, arg,
                   successes, net, origin>>

BuildNext ==
    \/ BuildCall
    \/ \E data \in RawData : BuildRaw(data)

SpecBuild == BuildInit /\ [][BuildNext]_vars

\* bit k of byte b
Bit(b, k) == (b \div (2 ^ k)) % 2

\* how many of the bytes bs[1..n] have bit k set
RECURSIVE CountBit(_, _, _)
CountBit(bs, n, k) ==
    IF n = 0 THEN 0 ELSE CountBit(bs, n - 1, k) + Bit(bs[n], k)

\* the byte whose bit k is the parity of bit k over all bytes of bs
XorOfAll(bs) ==
    LET bit(k) == CountBit(bs, Len(bs), k) % 2
    IN  bit(0) + 2 * bit(1) + 4 * bit(2) + 8 * bit(3) + 16 * bit(4)
        + 32 * bit(5) + 64 * bit(6) + 128 * bit(7)

\* C12: the checksum byte of a request is the XOR of all payload bytes, is
\* a byte, and is 0 for the empty payload.
C12_ChecksumIsXor ==
    request # None =>
        /\ Len(request) >= 3
        /\ request[3] = XorOfAll(Body(request))
        /\ request[3] \in 0..255
        /\ Body(request) = <<>> => request[3] = 0

\* "POST al::" and the euro sign: checksum 249, high bit set
C12_Witness ==
    /\ request # None
    /\ Body(request) = <<80, 79, 83, 84, 32, 97, 108, 58, 58, 226, 130, 172>>
    /\ request[3] = 249

\* C13: the request of postMessage(u, t) is marker 'C', the digit of the
\* current sequence bit, the checksum, then the payload, and the payload
\* decodes to "POST u::t"; for getMessages it decodes to "GET".
C13_RequestLayout ==
    outcome = "built" =>
        /\ Len(request) >= 3
        /\ request[1] = 67
        /\ <<request[2]>> = seq
        /\ request[2] \in {48, 49}
        /\ request[3] = XorOfAll(Body(request))
        /\ Decode(Body(request)) =
              (IF arg = None THEN S("GET")
               ELSE S("POST ") \o name \o S("::") \o arg)

\* a post by user e-acute of the euro sign, sequence bit 1
C13_Witness ==
    /\ outcome = "built"
    /\ seq = <<49>>
    /\ name = <<233>>
    /\ arg = <<8364>>
    /\ Body(request) = <<80, 79, 83, 84, 32, 195, 169, 58, 58, 226, 130, 172>>

----------------------------------------------------------------------------
(* Properties of the transport across calls. *)

\* C14: at most one sendRequest is in progress: the timer callback and the
\* post callback never run inside one another's send, and the sequence bit
\* is not changed under a running send.
C14_OneSendAtATime ==
    /\ Len(stack) <= 1
    /\ stack # <<>> => (outcome = "running" /\ seq = seq0)

\* a post waiting in its second iteration
C14_Witness == stack = <<"post">> /\ Len(wire) = 2

\* C18: every transmitted datagram carries the sequence bit of the moment
\* of its transmission, and all transmissions of one call are the same
\* bytes.
C18_SameBytesEachAttempt ==
    /\ stack # <<>> => seq = seq0
    /\ \A i \in 1..Len(wire) :
          /\ wire[i] = wire[1]
          /\ wire[i] = request
          /\ <<wire[i][2]>> = seq0

\* three transmissions with sequence bit 1
C18_Witness == Len(wire) = 3 /\ seq0 = <<49>> /\ wire[3][2] = 49

\* C19: the sequence bit is 0 or 1 and equals, modulo 2, the number of
\* calls that returned a reply payload.
C19_SeqIsParity ==
    /\ seq \in {<<48>>, <<49>>}
    /\ successes \in {0, 1}
    /\ seq = <<48 + successes>>

\* one payload returned, then a call that ended Unresponsive
C19_Witness == outcome = "unresponsive" /\ seq = <<49>> /\ Len(wire) >= 1

\* C20: a fetch whose result does not start with "OK" leaves the list as it
\* was and sets the status to the result; the list changes only in a fetch
\* whose result starts with "OK", and the status then counts its items.
C20_ListOnlyOnOK ==
    /\ (Finished /\ IsFetch /\ outcome \in {"payload", "unresponsive"}
        /\ ~StartsWith(result, OK)) =>
            (items = items0 /\ status = result)
    /\ (Finished /\ IsFetch /\ outcome = "payload" /\ StartsWith(result, OK)) =>
            status = Str(Len(items)) \o S(" messages retrieved")
    /\ items # items0 =>
            (IsFetch /\ outcome = "payload" /\ StartsWith(result, OK))

\* a failed fetch after a list of two lines was shown
C20_Witness ==
    /\ Finished
    /\ IsFetch
    /\ outcome = "unresponsive"
    /\ Len(items) = 2
    /\ items = items0
    /\ status = Unresponsive

----------------------------------------------------------------------------
(* Mismatching datagrams. *)

\* the second byte of datagram d is a sequence digit other than sq
Mismatch(d, sq) == Len(d) >= 2 /\ d[2] \in {48, 49} /\ d[2] # sq[1]

\* C15: a datagram whose sequence digit mismatches consumes its attempt: no
\* state changes, the request is sent again at once if an attempt remains,
\* and the call returns the sentinel if it was the last; no call transmits
\* more than retries times.
C15_MismatchConsumesAttempt ==
    /\ Len(wire) <= retries
    /\ (lastRecv # None /\ Mismatch(lastRecv, seq0)) =>
          /\ seq = seq0
          /\ toggles = 0
          /\ items = items0
          /\ IF recvAt < retries
             THEN Len(wire) > recvAt
             ELSE /\ outcome = "unresponsive"
                  /\ result = Unresponsive
                  /\ Len(wire) = retries
          /\ outcome \in {"running", "unresponsive"}

----------------------------------------------------------------------------
(* Termination of sendRequest: select returns after at most the timeout. *)

SpecLive ==
    /\ Spec
    /\ WF_vars(SelectTimeout \/ \E d \in Datagrams : SelectReadable(d))

\* C16: every sendRequest call eventually returns a payload or the sentinel.
C16_EventuallyReturns ==
    (outcome = "running") ~> (outcome \in {"payload", "unresponsive"})

----------------------------------------------------------------------------
(* The client facing a conforming server over a network that delays, loses
   and reorders datagrams. *)

MaxInFlight == 2

\* what a conforming server answers to the request on the wire: the
\* sequence digit of the request, the list for a GET, "OK" for a POST
ServerBody == IF Head(stack) = "get" THEN Listing ELSE OK

\* the server receives one transmission of the running call and replies
ServerReply ==
    /\ stack # <<>>
    /\ Len(wire) >= 1
    /\ Cardinality(net) < MaxInFlight
    /\ net' = net \cup {[dgram |-> Reply(request[2], ServerBody), fresh |-> TRUE]}
    /\ UNCHANGED <<seq, retries, name, stack, request, t, status, items, wire,
                   seq0, outcome, result, parsed, lastRecv, recvAt, toggles,
                   items0, arg, successes, origin>>

\* the network loses a reply
Drop(r) ==
    /\ r \in net
    /\ net' = net \ {r}
    /\ UNCHANGED <<seq, retries, name, stack, request, t, status, items, wire,
                   seq0, outcome, result, parsed, lastRecv, recvAt, toggles,
                   items0, arg, successes, origin>>

\* a reply reaches the socket while select waits
Deliver(r) ==
    /\ r \in net
    /\ Read(r.dgram, IF r.fresh THEN "fresh" ELSE "stale")
    /\ net' = net \ {r}

NetNext ==
    \/ retrieve_messages
    \/ \E m \in Messages : post_message_callback(m)
    \/ SelectTimeout
    \/ ServerReply
    \/ \E r \in net : Drop(r)
    \/ \E r \in net : Deliver(r)

SpecNet == Init /\ [][NetNext]_vars

\* C17: every payload a call returns comes from a reply the server made to
\* a transmission of that same call, never from a reply to an earlier call.
C17_PayloadIsFresh ==
    outcome = "payload" => origin = "fresh"

====
